---- MODULE Spec2Model ----
(***************************************************************************)
(* A model of the RAG orchestration service of app/main.py: the ingest     *)
(* endpoint, the blocking and the streaming ask endpoints and the stream   *)
(* relay, together with the three backends they call (the embedding        *)
(* service, the vector store, the generation service).                     *)
(*                                                                         *)
(* Strings are sequences of tokens, so that concatenation, joining and the *)
(* prompt template are computed and not assumed.                           *)
(***************************************************************************)
EXTENDS Integers, Sequences, FiniteSets, TLC

\* ------------------------------------------------------------------ bounds
NumIngestReqs == 2      \* ingest requests in flight in IngestSpec
SpareIds == 0           \* ids of the uuid space beyond one per request
MaxNoise == 2           \* malformed or empty lines the generation backend may interleave
NumAskReqs == 1         \* blocking ask requests running next to the streaming one
NumInstances == 2       \* service instances running startup_event
MaxStartupRuns == 2     \* starts of one service instance

\* ------------------------------------------------------------------ program constants
VECTOR_SIZE == 768      \* models.VectorParams(size=768, ...)
SEARCH_LIMIT == 3       \* query_points(..., limit=3)

\* ------------------------------------------------------------------ data
IngestReqs == 1..NumIngestReqs
Ids == 1..(NumIngestReqs + SpareIds)
NoId == 0

\* Document texts and questions (token sequences).
DocTexts == { <<"kubelet">>, <<"helm", "chart">> }
Questions == { <<"pods?">>, <<"helm?">> }

MetaKeys == { "text", "source" }
MetaValue(k) == IF k = "text" THEN <<"override">> ELSE <<"wiki">>
Metadata(S) == [k \in S |-> MetaValue(k)]
Metadatas == { Metadata({}), Metadata({"source"}), Metadata(MetaKeys) }

\* class Document(BaseModel): text, metadata
Document == [text : DocTexts, metadata : Metadatas]
NoDoc == [text |-> <<>>, metadata |-> Metadata({})]

\* The embedding backend maps a text to a direction; the service never looks
\* inside a vector, only the store does (cosine similarity).
EmbedDir(text) ==
    CASE text = <<"kubelet">>       -> <<2, 0>>
      [] text = <<"helm", "chart">> -> <<0, 2>>
      [] text = <<"pods?">>         -> <<2, 1>>
      [] text = <<"helm?">>         -> <<1, 3>>
      [] OTHER                      -> <<1, 1>>

NoVector == [dim |-> 0, dir |-> <<0, 0>>]
Dims == { VECTOR_SIZE, VECTOR_SIZE \div 2 }

\* What `await client.post(f"{OLLAMA_URL}/api/embeddings", ..., timeout=60.0)`
\* can produce: an exception (connection error, timeout), or a response with a
\* status and a JSON body. An error response carries no "embedding" field.
EmbedResponses(text) ==
    { [kind |-> k, status |-> 0, has_embedding |-> FALSE, embedding |-> NoVector]
        : k \in {"connect_error", "timeout"} }
    \cup { [kind |-> "response", status |-> 500, has_embedding |-> FALSE, embedding |-> NoVector],
           [kind |-> "response", status |-> 200, has_embedding |-> FALSE, embedding |-> NoVector] }
    \cup { [kind |-> "response", status |-> 200, has_embedding |-> TRUE,
            embedding |-> [dim |-> d, dir |-> EmbedDir(text)]] : d \in Dims }

EmbedFailed(resp) == resp.kind # "response" \/ resp.status # 200 \/ ~resp.has_embedding

\* ------------------------------------------------------------------ vector store
\* The collection is a sequence of points in insertion order.
PointIds(pts) == { pts[i].id : i \in 1..Len(pts) }

\* What the store does with qdrant.upsert(points=[p]): a transport failure or a
\* vector of the wrong dimension raises and writes nothing; otherwise the point
\* with that id is inserted or replaced.
StoreOutcomes(vector) ==
    IF vector.dim = VECTOR_SIZE THEN {"ok", "transport_error"} ELSE {"dimension_mismatch"}

qdrant_upsert(pts, p, outcome) ==
    IF outcome # "ok" THEN [ok |-> FALSE, points |-> pts]
    ELSE IF p.id \in PointIds(pts)
         THEN [ok |-> TRUE, points |-> [i \in 1..Len(pts) |-> IF pts[i].id = p.id THEN p ELSE pts[i]]]
         ELSE [ok |-> TRUE, points |-> Append(pts, p)]

\* ------------------------------------------------------------------ similarity search
Dot(a, b) == a[1] * b[1] + a[2] * b[2]

\* cos(a, q) > cos(b, q) for vectors with non-negative coordinates, without
\* division: (a.q)^2 |b|^2 > (b.q)^2 |a|^2.
CosGreater(a, b, q) ==
    Dot(a, q) * Dot(a, q) * Dot(b, b) > Dot(b, q) * Dot(b, q) * Dot(a, a)

\* The nearest point among the indexes idxs: highest cosine, the earliest
\* inserted among equals.
Nearest(pts, idxs, q) ==
    CHOOSE i \in idxs : \A j \in idxs \ {i} :
        \/ CosGreater(pts[i].vector.dir, pts[j].vector.dir, q)
        \/ (~CosGreater(pts[j].vector.dir, pts[i].vector.dir, q) /\ i < j)

RECURSIVE TopK(_, _, _, _)
TopK(pts, idxs, q, k) ==
    IF k = 0 \/ idxs = {} THEN <<>>
    ELSE LET i == Nearest(pts, idxs, q)
         IN <<pts[i]>> \o TopK(pts, idxs \ {i}, q, k - 1)

SearchOutcomes(vector) ==
    IF vector.dim = VECTOR_SIZE THEN {"ok", "transport_error"} ELSE {"dimension_mismatch"}

\* qdrant.query_points(collection_name, query=vector, limit=k).points
\* A search reads the collection: `points` is the collection after the call.
qdrant_query_points_recording(pts, vector, k, outcome) ==
    IF outcome # "ok" THEN [ok |-> FALSE, hits |-> <<>>, points |-> pts]
    ELSE [ok |-> TRUE, hits |-> TopK(pts, 1..Len(pts), vector.dir, k),
          points |-> Append(pts, [id |-> NoId, vector |-> vector, payload |-> [text |-> <<>>]])]

qdrant_query_points(pts, vector, k, outcome) ==
    IF outcome # "ok" THEN [ok |-> FALSE, hits |-> <<>>, points |-> pts]
    ELSE [ok |-> TRUE, hits |-> TopK(pts, 1..Len(pts), vector.dir, k), points |-> pts]

\* ------------------------------------------------------------------ strings
RECURSIVE Join(_, _)
\* sep.join(texts)
Join(texts, sep) ==
    IF texts = <<>> THEN <<>>
    ELSE IF Len(texts) = 1 THEN texts[1]
    ELSE texts[1] \o sep \o Join(Tail(texts), sep)

RECURSIVE Concat(_)
Concat(frags) == IF frags = <<>> THEN <<>> ELSE frags[1] \o Concat(Tail(frags))

ContextText_space_joined(hits) == Join([i \in 1..Len(hits) |-> hits[i].payload["text"]], <<" ">>)

\* "\n".join([hit.payload["text"] for hit in search_result])
ContextText(hits) == Join([i \in 1..Len(hits) |-> hits[i].payload["text"]], <<"\n">>)

\* f"Context: {context_text}\n\nQuestion: {query.question}\n\nAnswer:"  (ask_question)
ask_prompt(context_text, question) ==
    <<"Context: ">> \o context_text \o <<"\n\nQuestion: ">> \o question \o <<"\n\nAnswer:">>

\* f"Context: {context}\n\nQuestion: {query}\n\nAnswer:"  (generate_stream)
generate_stream_prompt_no_context(query_text, context) ==
    <<"Question: ">> \o query_text \o <<"\n\nAnswer:">>

generate_stream_prompt(query_text, context) ==
    <<"Context: ">> \o context \o <<"\n\nQuestion: ">> \o query_text \o <<"\n\nAnswer:">>

\* ------------------------------------------------------------------ generation backend
\* A deterministic backend: the answer to a prompt is a fixed sequence of
\* fragments that depends on the prompt; the last one is the empty fragment
\* of the line that carries done=true. The blocking call returns their
\* concatenation, the streaming call one JSON line per fragment.
GenFragments(prompt) == << <<"re:">>, prompt, <<>> >>

NoGenResp == [kind |-> "none", status |-> 0, has_response |-> FALSE, response |-> <<>>]

\* What `await client.post(f"{OLLAMA_URL}/api/generate", ..., timeout=120.0)` can produce.
GenResponses(prompt) ==
    { [kind |-> k, status |-> 0, has_response |-> FALSE, response |-> <<>>]
        : k \in {"connect_error", "timeout"} }
    \cup { [kind |-> "response", status |-> 500, has_response |-> FALSE, response |-> <<>>],
           [kind |-> "response", status |-> 200, has_response |-> TRUE,
            response |-> Concat(GenFragments(prompt))] }

\* One line of the streaming response, as json.loads and the two tests of the
\* relay see it: its JSON kind, the names it contains (the keys of an object,
\* the elements of an array, the substrings of a string) and the value of its
\* response field.
FragmentLine(f) == [kind |-> "object", members |-> {"response", "done"}, response |-> f]
ErrorBodyLine == [kind |-> "object", members |-> {"error"}, response |-> <<>>]
EmptyLine == [kind |-> "empty", members |-> {}, response |-> <<>>]
GarbageLine == [kind |-> "garbage", members |-> {}, response |-> <<>>]
StringLine == [kind |-> "string", members |-> {"response"}, response |-> <<>>]
ArrayLine == [kind |-> "array", members |-> {"response"}, response |-> <<>>]
NumberLine == [kind |-> "number", members |-> {}, response |-> <<>>]
NoLine == [kind |-> "none", members |-> {}, response |-> <<>>]

NoiseLines == { EmptyLine, GarbageLine, ErrorBodyLine, StringLine, ArrayLine, NumberLine }

\* The lines the backend streams for a prompt: the fragments on success, one
\* error body on a non-success status.
GenLines(prompt, status) ==
    IF status = 200
    THEN [i \in 1..Len(GenFragments(prompt)) |-> FragmentLine(GenFragments(prompt)[i])]
    ELSE << ErrorBodyLine >>

\* ------------------------------------------------------------------ generate_stream: one line
\* The exception lines 99-101 raise for a line, "none" when they raise nothing:
\* json.loads on text that is not JSON; `"response" in data` on a number;
\* data["response"] on a string or an array that contains "response".
line_exception(line) ==
    CASE line.kind = "garbage" -> "JSONDecodeError"
      [] line.kind = "number" -> "TypeError"
      [] line.kind \in {"string", "array"} /\ "response" \in line.members -> "TypeError"
      [] OTHER -> "none"

line_yields_buffered(line) == FALSE

\* if "response" in data: yield data["response"]
line_yields(line) == line_exception(line) = "none" /\ "response" \in line.members

\* `except Exception` (lines 102 and 106) catches every exception but the
\* ones that derive from BaseException only: asyncio.CancelledError, GeneratorExit.
inner_catches_bare_except(exc) == TRUE

inner_catches_json_only(exc) == exc = "JSONDecodeError"

inner_catches(exc) == exc \notin {"CancelledError", "GeneratorExit"}

outer_catches(exc) == exc \notin {"CancelledError", "GeneratorExit"}

\* yield f"Error: {str(e)}"
ErrorFragment(exc) == <<"Error: ", exc>>

on_stream_error_truncate(emitted, exc) == emitted

on_stream_error(emitted, exc) == Append(emitted, ErrorFragment(exc))

\* ------------------------------------------------------------------ state
VARIABLES
    points,     \* the collection devops_knowledge: sequence of [id, vector, payload]
    issued,     \* ids uuid4 has produced so far
    ingest,     \* per ingest request: pc, doc, emb_resp, point_id, upsert_calls,
                \* store_outcome, http
    query,      \* per query request: the state of ask_question / ask_question_stream
                \* and of the generate_stream generator it started
    collections,\* the collections of the vector store: set of [name, size, distance]
    startup     \* per service instance: the state of its startup_event runs

vars == <<points, issued, ingest, query, collections, startup>>

NoHttp == [status |-> 0, detail |-> "", id |-> NoId]
NoEmbResp == [kind |-> "none", status |-> 0, has_embedding |-> FALSE, embedding |-> NoVector]

\* Query requests: request 0 is the ask_stream request, the others are ask requests.
StreamReqs == {0}
AskReqs == 1..NumAskReqs
QueryReqs == StreamReqs \cup AskReqs

NoQHttp == [status |-> 0, answer |-> <<>>, retrieved_context |-> <<>>, media_type |-> ""]
\* An exception no handler catches: the framework answers 500.
Http500 == [status |-> 500, answer |-> <<>>, retrieved_context |-> <<>>, media_type |-> ""]

QueryIdle ==
    [mode |-> "none", pc |-> "idle", question |-> <<>>, emb_resp |-> NoEmbResp,
     calls |-> <<>>, search_outcome |-> "none", hits |-> <<>>, context |-> <<>>,
     prompt |-> <<>>, gen_resp |-> NoGenResp, http |-> NoQHttp,
     conn |-> "none", gen_status |-> 0, sent |-> 0, noise |-> 0, lines |-> <<>>,
     emitted |-> <<>>, failed |-> FALSE, pending_cancel |-> FALSE, disconnected |-> FALSE]

IngestIdle == [pc |-> "idle", doc |-> NoDoc, emb_resp |-> NoEmbResp, point_id |-> NoId,
               upsert_calls |-> 0, store_outcome |-> "none", http |-> NoHttp]

\* ------------------------------------------------------------------ startup_event
COLLECTION_NAME == "devops_knowledge"

\* VectorParams(size=768, distance=Distance.COSINE) under COLLECTION_NAME.
DevopsCollection == [name |-> COLLECTION_NAME, size |-> VECTOR_SIZE, distance |-> "Cosine"]

\* A collection of another application in the same store.
OtherCollection == [name |-> "scratch", size |-> VECTOR_SIZE, distance |-> "Dot"]

\* Service instances (processes), each with its own startup hook.
Instances == 1..NumInstances

\* Outcomes of one call to the store during startup.
StartupOutcomes == {"ok", "transport_error"}

\* qdrant.collection_exists(collection_name=...)
qdrant_collection_exists(colls, name) == \E c \in colls : c.name = name

\* qdrant.create_collection(...): the store keeps names unique and answers a
\* create for an existing name with a conflict, which the client raises.
qdrant_create_collection(colls, c) ==
    IF qdrant_collection_exists(colls, c.name)
    THEN [ok |-> FALSE, collections |-> colls]
    ELSE [ok |-> TRUE, collections |-> colls \cup {c}]

StartupIdle == [pc |-> "idle", runs |-> 0, ok_runs |-> 0, create_calls |-> 0,
                error |-> "none", lost |-> FALSE]

\* A service whose startup completed.
StartupDone == [StartupIdle EXCEPT !.pc = "done", !.runs = 1, !.ok_runs = 1]

startup_always_creates(exists) == TRUE

\* if not qdrant.collection_exists(...):
startup_needs_create(exists) == ~exists

\* The hook runs up to the answer of collection_exists. Nothing catches an
\* exception of the client: the hook raises and the startup fails.
startup_event_check(i, outcome) ==
    /\ startup[i].pc = "idle"
    /\ UNCHANGED <<points, issued, ingest, query, collections>>
    /\ IF outcome = "transport_error"
       THEN startup' = [startup EXCEPT ![i] =
                [@ EXCEPT !.pc = "failed", !.runs = @ + 1, !.error = "transport",
                          !.lost = TRUE]]
       ELSE IF startup_needs_create(qdrant_collection_exists(collections, COLLECTION_NAME))
       THEN startup' = [startup EXCEPT ![i] = [@ EXCEPT !.pc = "creating"]]
       ELSE startup' = [startup EXCEPT ![i] =
                [@ EXCEPT !.pc = "done", !.runs = @ + 1, !.ok_runs = @ + 1]]

\* create_collection reaches the store: a second request of this process, so
\* the requests of another instance may arrive between the two.
startup_event_create(i, outcome) ==
    /\ startup[i].pc = "creating"
    /\ UNCHANGED <<points, issued, ingest, query>>
    /\ IF outcome = "transport_error"
       THEN /\ startup' = [startup EXCEPT ![i] =
                    [@ EXCEPT !.pc = "failed", !.runs = @ + 1, !.create_calls = @ + 1,
                              !.error = "transport", !.lost = TRUE]]
            /\ UNCHANGED collections
       ELSE LET res == qdrant_create_collection(collections, DevopsCollection)
            IN /\ collections' = res.collections
               /\ startup' = [startup EXCEPT ![i] =
                    IF res.ok
                    THEN [@ EXCEPT !.pc = "done", !.runs = @ + 1, !.ok_runs = @ + 1,
                                   !.create_calls = @ + 1]
                    ELSE [@ EXCEPT !.pc = "failed", !.runs = @ + 1,
                                   !.create_calls = @ + 1, !.error = "conflict"]]

\* The process is started again (a redeploy, or a restart after a failed startup).
startup_event_again(i) ==
    /\ startup[i].pc \in {"done", "failed"}
    /\ startup[i].runs < MaxStartupRuns
    /\ startup' = [startup EXCEPT ![i] = [@ EXCEPT !.pc = "idle", !.error = "none"]]
    /\ UNCHANGED <<points, issued, ingest, query, collections>>

StartupInit ==
    /\ points = <<>>
    /\ issued = {}
    /\ ingest = [r \in IngestReqs |-> IngestIdle]
    /\ query = [q \in QueryReqs |-> QueryIdle]
    /\ collections \in {{}, {OtherCollection}}
    /\ startup = [i \in Instances |-> StartupIdle]

StartupNext ==
    \/ \E i \in Instances, outcome \in StartupOutcomes : startup_event_check(i, outcome)
    \/ \E i \in Instances, outcome \in StartupOutcomes : startup_event_create(i, outcome)
    \/ \E i \in Instances : startup_event_again(i)

StartupSpec == StartupInit /\ [][StartupNext]_vars

\* ------------------------------------------------------------------ ingest_document
\* payload={"text": doc.text, **doc.metadata}: later keys win in a dict display.
ingest_payload(doc) ==
    [k \in {"text"} \cup DOMAIN doc.metadata |->
        IF k \in DOMAIN doc.metadata THEN doc.metadata[k] ELSE doc.text]

\* Lines 48-59: what the handler does with the embedding call's outcome.
ingest_embed_step_swallow(resp) ==
    IF resp.kind # "response"
    THEN [raised |-> FALSE, http |-> NoHttp, embedding |-> NoVector]
    ELSE IF resp.status # 200
    THEN [raised |-> TRUE, http |-> [status |-> 500, detail |-> "Embedding failed", id |-> NoId],
          embedding |-> NoVector]
    ELSE IF ~resp.has_embedding
    THEN [raised |-> TRUE, http |-> [status |-> 500, detail |-> "Internal Server Error", id |-> NoId],
          embedding |-> NoVector]
    ELSE [raised |-> FALSE, http |-> NoHttp, embedding |-> resp.embedding]

ingest_embed_step_all_500(resp) ==
    IF resp.kind # "response"
    THEN [raised |-> TRUE, http |-> [status |-> 500, detail |-> "Ollama embedding failed", id |-> NoId],
          embedding |-> NoVector]
    ELSE IF resp.status # 200
    THEN [raised |-> TRUE, http |-> [status |-> 500, detail |-> "Embedding failed", id |-> NoId],
          embedding |-> NoVector]
    ELSE IF ~resp.has_embedding
    THEN [raised |-> TRUE, http |-> [status |-> 500, detail |-> "Internal Server Error", id |-> NoId],
          embedding |-> NoVector]
    ELSE [raised |-> FALSE, http |-> NoHttp, embedding |-> resp.embedding]

ingest_embed_step(resp) ==
    IF resp.kind # "response"
    THEN \* except Exception: raise HTTPException(status_code=503, ...)
         [raised |-> TRUE, http |-> [status |-> 503, detail |-> "Ollama embedding failed", id |-> NoId],
          embedding |-> NoVector]
    ELSE IF resp.status # 200
    THEN \* raise HTTPException(status_code=500, detail="Embedding failed")
         [raised |-> TRUE, http |-> [status |-> 500, detail |-> "Embedding failed", id |-> NoId],
          embedding |-> NoVector]
    ELSE IF ~resp.has_embedding
    THEN \* response.json()["embedding"] raises KeyError: the framework answers 500
         [raised |-> TRUE, http |-> [status |-> 500, detail |-> "Internal Server Error", id |-> NoId],
          embedding |-> NoVector]
    ELSE [raised |-> FALSE, http |-> NoHttp, embedding |-> resp.embedding]

\* point_id = str(uuid.uuid4()): a random 122-bit id, modelled as an id that
\* was never produced before.
uuid4_module_level(used) == { CHOOSE i \in Ids : TRUE }

uuid4(used) == Ids \ used

\* Lines 62-76: the result of the upsert decides the response.
ingest_upsert_step_swallow(point_id, ok) ==
    [status |-> 200, detail |-> "ingested", id |-> point_id]

ingest_upsert_step(point_id, ok) ==
    IF ok
    THEN [status |-> 200, detail |-> "ingested", id |-> point_id]
    ELSE \* except Exception: raise HTTPException(status_code=500, ...)
         [status |-> 500, detail |-> "Qdrant failed", id |-> NoId]

\* POST /ingest arrives; the handler runs up to `await client.post(...)`.
ingest_document_call(r, doc) ==
    /\ ingest[r].pc = "idle"
    /\ ingest' = [ingest EXCEPT ![r] = [@ EXCEPT !.pc = "await_embed", !.doc = doc]]
    /\ UNCHANGED <<points, issued, query, collections, startup>>

\* The embedding call returns; the handler runs to its end (the upsert is a
\* synchronous call, so nothing of this process interleaves with it).
ingest_document_resume(r, resp) ==
    /\ ingest[r].pc = "await_embed"
    /\ UNCHANGED <<query, collections, startup>>
    /\ LET doc == ingest[r].doc
           e == ingest_embed_step(resp)
       IN IF e.raised
          THEN /\ ingest' = [ingest EXCEPT ![r] =
                        [@ EXCEPT !.pc = "done", !.emb_resp = resp, !.http = e.http]]
               /\ UNCHANGED <<points, issued>>
          ELSE \E pid \in uuid4(issued), outcome \in StoreOutcomes(e.embedding) :
               LET p == [id |-> pid, vector |-> e.embedding, payload |-> ingest_payload(doc)]
                   res == qdrant_upsert(points, p, outcome)
               IN /\ points' = res.points
                  /\ issued' = issued \cup {pid}
                  /\ ingest' = [ingest EXCEPT ![r] =
                        [@ EXCEPT !.pc = "done", !.emb_resp = resp, !.point_id = pid,
                                  !.upsert_calls = @ + 1, !.store_outcome = outcome,
                                  !.http = ingest_upsert_step(pid, res.ok)]]

AllStoreOutcomes == {"ok", "transport_error", "dimension_mismatch"}

IngestInit ==
    /\ points = <<>>
    /\ issued = {}
    /\ ingest = [r \in IngestReqs |-> IngestIdle]
    /\ query = [q \in QueryReqs |-> QueryIdle]
    /\ collections = {DevopsCollection}
    /\ startup = [i \in Instances |-> StartupDone]

IngestNext ==
    \/ \E r \in IngestReqs, doc \in Document : ingest_document_call(r, doc)
    \/ \E r \in IngestReqs : \E resp \in EmbedResponses(ingest[r].doc.text) :
            ingest_document_resume(r, resp)

IngestSpec == IngestInit /\ [][IngestNext]_vars

\* ------------------------------------------------------------------ ask_question
\* Lines 139-143 / 114-118: no handler and no status check; an exception of
\* the call, or a body without "embedding" (KeyError), leaves the handler.
ask_embed_step_fallback(resp) == [raised |-> FALSE, vector |-> resp.embedding]

ask_embed_step(resp) ==
    IF resp.kind # "response" \/ ~resp.has_embedding
    THEN [raised |-> TRUE, vector |-> NoVector]
    ELSE [raised |-> FALSE, vector |-> resp.embedding]

ask_stream_embed_step(resp) ==
    IF resp.kind # "response" \/ ~resp.has_embedding
    THEN [raised |-> TRUE, vector |-> NoVector]
    ELSE [raised |-> FALSE, vector |-> resp.embedding]

\* Lines 146-150 / 121-125: an exception of query_points leaves the handler.
ask_search_step_abort_empty(res) ==
    IF res.ok /\ res.hits # <<>>
    THEN [raised |-> FALSE, hits |-> res.hits] ELSE [raised |-> TRUE, hits |-> <<>>]

ask_search_step(res) ==
    IF res.ok THEN [raised |-> FALSE, hits |-> res.hits] ELSE [raised |-> TRUE, hits |-> <<>>]

ask_stream_search_step_fallback(res) == [raised |-> FALSE, hits |-> res.hits]

ask_stream_search_step(res) ==
    IF res.ok THEN [raised |-> FALSE, hits |-> res.hits] ELSE [raised |-> TRUE, hits |-> <<>>]

\* Lines 156-165: an exception of the call, or a body without "response"
\* (KeyError), leaves the handler; otherwise the answer and the payloads.
ask_generate_step(resp, hits) ==
    IF resp.kind # "response" \/ ~resp.has_response
    THEN Http500
    ELSE [status |-> 200, answer |-> resp.response,
          retrieved_context |-> [i \in 1..Len(hits) |-> hits[i].payload],
          media_type |-> "application/json"]

\* POST /ask arrives; the handler runs up to the embedding call.
ask_question_call(q, question) ==
    /\ q \in AskReqs
    /\ query[q].pc = "idle"
    /\ query' = [query EXCEPT ![q] = [@ EXCEPT !.mode = "ask", !.pc = "await_embed",
                                               !.question = question, !.calls = <<"embed">>]]
    /\ UNCHANGED <<points, issued, ingest, collections, startup>>

\* The embedding call returns; search (synchronous), prompt, then the generate call.
ask_question_embedded(q, resp, outcome) ==
    /\ query[q].mode = "ask" /\ query[q].pc = "await_embed"
    /\ UNCHANGED <<issued, ingest, collections, startup>>
    /\ LET e == ask_embed_step(resp)
           res == qdrant_query_points(points, e.vector, SEARCH_LIMIT, outcome)
           s == ask_search_step(res)
           context_text == ContextText(s.hits)
       IN IF e.raised
          THEN /\ query' = [query EXCEPT ![q] = [@ EXCEPT !.pc = "done", !.emb_resp = resp,
                                                          !.http = Http500]]
               /\ UNCHANGED points
          ELSE /\ outcome \in SearchOutcomes(e.vector)
               /\ points' = res.points
               /\ IF s.raised
                  THEN query' = [query EXCEPT ![q] =
                            [@ EXCEPT !.pc = "done", !.emb_resp = resp,
                                      !.calls = Append(@, "search"),
                                      !.search_outcome = outcome, !.http = Http500]]
                  ELSE query' = [query EXCEPT ![q] =
                            [@ EXCEPT !.pc = "await_generate", !.emb_resp = resp,
                                      !.calls = @ \o <<"search", "generate">>,
                                      !.search_outcome = outcome, !.hits = s.hits,
                                      !.context = context_text,
                                      !.prompt = ask_prompt(context_text, query[q].question)]]

\* The generate call returns; the handler ends.
ask_question_generated(q, resp) ==
    /\ query[q].mode = "ask" /\ query[q].pc = "await_generate"
    /\ query' = [query EXCEPT ![q] = [@ EXCEPT !.pc = "done", !.gen_resp = resp,
                                               !.http = ask_generate_step(resp, query[q].hits)]]
    /\ UNCHANGED <<points, issued, ingest, collections, startup>>

\* ------------------------------------------------------------------ ask_question_stream
\* POST /ask_stream arrives; the handler runs up to the embedding call.
ask_question_stream_call(q, question) ==
    /\ q \in StreamReqs
    /\ query[q].pc = "idle"
    /\ query' = [query EXCEPT ![q] = [@ EXCEPT !.mode = "ask_stream", !.pc = "await_embed",
                                               !.question = question, !.calls = <<"embed">>]]
    /\ UNCHANGED <<points, issued, ingest, collections, startup>>

\* The embedding call returns; search, context, and the StreamingResponse is
\* returned around a generator that has not started yet.
ask_question_stream_embedded(q, resp, outcome) ==
    /\ query[q].mode = "ask_stream" /\ query[q].pc = "await_embed"
    /\ UNCHANGED <<issued, ingest, collections, startup>>
    /\ LET e == ask_stream_embed_step(resp)
           res == qdrant_query_points(points, e.vector, SEARCH_LIMIT, outcome)
           s == ask_stream_search_step(res)
       IN IF e.raised
          THEN /\ query' = [query EXCEPT ![q] = [@ EXCEPT !.pc = "done", !.emb_resp = resp,
                                                          !.http = Http500]]
               /\ UNCHANGED points
          ELSE /\ outcome \in SearchOutcomes(e.vector)
               /\ points' = res.points
               /\ IF s.raised
                  THEN query' = [query EXCEPT ![q] =
                            [@ EXCEPT !.pc = "done", !.emb_resp = resp,
                                      !.calls = Append(@, "search"),
                                      !.search_outcome = outcome, !.http = Http500]]
                  ELSE query' = [query EXCEPT ![q] =
                            [@ EXCEPT !.pc = "response_started", !.emb_resp = resp,
                                      !.calls = Append(@, "search"),
                                      !.search_outcome = outcome, !.hits = s.hits,
                                      !.context = ContextText(s.hits),
                                      !.http = [status |-> 200, answer |-> <<>>,
                                                retrieved_context |-> <<>>,
                                                media_type |-> "text/event-stream"]]]

\* ------------------------------------------------------------------ generate_stream
Streaming(q) ==
    query[q].pc \in {"response_started", "connecting", "reading", "yielded", "yielded_error"}

\* An exception exc reaches the outer try (line 87) with the fragments em
\* emitted so far: `async with client.stream` has closed the response; the
\* handler of line 106 yields the error fragment, or the exception leaves
\* the generator.
raise_to_outer_leaking(rec, exc) ==
    IF outer_catches(exc)
    THEN [rec EXCEPT !.pc = "yielded_error",
                     !.emitted = on_stream_error(@, exc), !.pending_cancel = FALSE]
    ELSE [rec EXCEPT !.pc = "closed", !.pending_cancel = FALSE]

raise_to_outer(rec, exc) ==
    IF outer_catches(exc)
    THEN [rec EXCEPT !.pc = "yielded_error", !.conn = IF @ = "open" THEN "closed" ELSE @,
                     !.emitted = on_stream_error(@, exc), !.pending_cancel = FALSE]
    ELSE [rec EXCEPT !.pc = "closed", !.conn = IF @ = "open" THEN "closed" ELSE @,
                     !.pending_cancel = FALSE]

\* An exception exc is raised inside the inner try (lines 98-101).
raise_in_inner(rec, exc) ==
    IF inner_catches(exc)
    THEN [rec EXCEPT !.pc = "reading", !.pending_cancel = FALSE]    \* continue
    ELSE raise_to_outer(rec, exc)

\* The response starts to iterate the generator: prompt, then the stream is opened.
generate_stream_start(q) ==
    /\ query[q].pc = "response_started" /\ ~query[q].pending_cancel
    /\ query' = [query EXCEPT ![q] =
            [@ EXCEPT !.pc = "connecting", !.calls = Append(@, "generate"),
                      !.prompt = generate_stream_prompt(query[q].question, query[q].context)]]
    /\ UNCHANGED <<points, issued, ingest, collections, startup>>

\* client.stream("POST", .../api/generate, timeout=None) connects or raises.
generate_stream_connected(q, ev) ==
    /\ query[q].pc = "connecting" /\ ~query[q].pending_cancel
    /\ ev \in {"ok", "http_error", "connect_error"}
    /\ query' = [query EXCEPT ![q] =
            IF ev = "connect_error"
            THEN raise_to_outer([@ EXCEPT !.failed = TRUE], "ConnectError")
            ELSE [@ EXCEPT !.pc = "reading", !.conn = "open",
                           !.gen_status = IF ev = "ok" THEN 200 ELSE 500]]
    /\ UNCHANGED <<points, issued, ingest, collections, startup>>

\* What the backend can deliver next to `async for line in response.aiter_lines()`:
\* its next line, the end of the body, a noise line (while the budget
\* lasts), or a transport failure.
BackendEvents(rec, noise_lines) ==
    LET all == GenLines(rec.prompt, rec.gen_status)
    IN { [type |-> "error", genuine |-> FALSE, line |-> NoLine] }
       \cup (IF rec.sent < Len(all)
             THEN { [type |-> "line", genuine |-> TRUE, line |-> all[rec.sent + 1]] }
             ELSE { [type |-> "eof", genuine |-> FALSE, line |-> NoLine] })
       \cup (IF rec.noise < MaxNoise
             THEN { [type |-> "line", genuine |-> FALSE, line |-> n] : n \in noise_lines }
             ELSE {})

\* One turn of the loop of lines 95-104.
generate_stream_line(q, ev) ==
    /\ query[q].pc = "reading" /\ ~query[q].pending_cancel
    /\ UNCHANGED <<points, issued, ingest, collections, startup>>
    /\ LET rec == query[q]
           got == [rec EXCEPT !.lines = Append(@, ev.line),
                              !.sent = IF ev.genuine THEN @ + 1 ELSE @,
                              !.noise = IF ev.genuine THEN @ ELSE @ + 1]
       IN query' = [query EXCEPT ![q] =
            CASE ev.type = "error" -> raise_to_outer([rec EXCEPT !.failed = TRUE], "ReadError")
              [] ev.type = "eof" -> [rec EXCEPT !.pc = "ended", !.conn = "closed"]
              [] ev.type = "line" /\ ev.line.kind = "empty" -> got     \* if not line: continue
              [] ev.type = "line" /\ ev.line.kind # "empty" /\ line_exception(ev.line) # "none" ->
                    raise_in_inner(got, line_exception(ev.line))
              [] ev.type = "line" /\ ev.line.kind # "empty" /\ line_yields(ev.line) ->
                    [got EXCEPT !.pc = "yielded", !.emitted = Append(@, ev.line.response)]
              [] OTHER -> got]

\* The fragment was sent and the response asks the generator for the next one.
generate_stream_resume(q) ==
    /\ query[q].pc \in {"yielded", "yielded_error"} /\ ~query[q].pending_cancel
    /\ query' = [query EXCEPT ![q] =
            [@ EXCEPT !.pc = IF @ = "yielded" THEN "reading" ELSE "ended"]]
    /\ UNCHANGED <<points, issued, ingest, collections, startup>>

\* The caller disconnects: the server cancels the task that sends the response.
caller_disconnect(q) ==
    /\ Streaming(q) /\ ~query[q].disconnected
    /\ query' = [query EXCEPT ![q] = [@ EXCEPT !.disconnected = TRUE, !.pending_cancel = TRUE]]
    /\ UNCHANGED <<points, issued, ingest, collections, startup>>

\* The cancellation reaches the generator where it is suspended:
\* CancelledError at an await of line 88 or 95 (inside the outer try),
\* GeneratorExit at the yield of line 101 (inside both try blocks) or of line
\* 108 (inside the handler, so no try of the generator covers it).
generate_stream_cancel(q) ==
    /\ query[q].pending_cancel
    /\ query' = [query EXCEPT ![q] =
            CASE @.pc = "response_started" -> [@ EXCEPT !.pc = "closed", !.pending_cancel = FALSE]
              [] @.pc \in {"connecting", "reading"} -> raise_to_outer(@, "CancelledError")
              [] @.pc = "yielded" -> raise_in_inner(@, "GeneratorExit")
              [] OTHER -> [@ EXCEPT !.pc = "closed", !.pending_cancel = FALSE]]
    /\ UNCHANGED <<points, issued, ingest, collections, startup>>

\* ------------------------------------------------------------------ query specifications
\* A collection as ingests of the documents ds, in this order, leave it (the
\* ids are outside the ids uuid4 will still produce).
MakeStore(ds) ==
    [i \in 1..Len(ds) |->
        [id |-> 0 - i, vector |-> [dim |-> VECTOR_SIZE, dir |-> EmbedDir(ds[i].text)],
         payload |-> ingest_payload(ds[i])]]

Doc(text, keys) == [text |-> text, metadata |-> Metadata(keys)]

StoreSamples ==
    { MakeStore(<<>>),
      MakeStore(<< Doc(<<"kubelet">>, {}) >>),
      MakeStore(<< Doc(<<"helm", "chart">>, {"source"}), Doc(<<"kubelet">>, {"text"}) >>),
      MakeStore(<< Doc(<<"helm", "chart">>, {}), Doc(<<"kubelet">>, {"source"}),
                   Doc(<<"kubelet">>, {}), Doc(<<"helm", "chart">>, {"source"}) >>) }

QueryInit ==
    /\ points \in StoreSamples
    /\ issued = PointIds(points)
    /\ ingest = [r \in IngestReqs |-> IngestIdle]
    /\ query = [q \in QueryReqs |-> QueryIdle]
    /\ collections = {DevopsCollection}
    /\ startup = [i \in Instances |-> StartupDone]

\* The ask requests and the ask_stream request interleaved; the generation
\* backend sends only its own lines.
QueryNext ==
    \/ \E q \in AskReqs, question \in Questions : ask_question_call(q, question)
    \/ \E q \in AskReqs : \E resp \in EmbedResponses(query[q].question),
            outcome \in AllStoreOutcomes : ask_question_embedded(q, resp, outcome)
    \/ \E q \in AskReqs : \E resp \in GenResponses(query[q].prompt) :
            ask_question_generated(q, resp)
    \/ \E q \in StreamReqs, question \in Questions : ask_question_stream_call(q, question)
    \/ \E q \in StreamReqs : \E resp \in EmbedResponses(query[q].question),
            outcome \in AllStoreOutcomes : ask_question_stream_embedded(q, resp, outcome)
    \/ \E q \in StreamReqs : generate_stream_start(q)
    \/ \E q \in StreamReqs, ev \in {"ok", "http_error", "connect_error"} :
            generate_stream_connected(q, ev)
    \/ \E q \in StreamReqs : \E ev \in BackendEvents(query[q], {}) : generate_stream_line(q, ev)
    \/ \E q \in StreamReqs : generate_stream_resume(q)
    \/ \E q \in StreamReqs : caller_disconnect(q)
    \/ \E q \in StreamReqs : generate_stream_cancel(q)

QuerySpec == QueryInit /\ [][QueryNext]_vars

\* One ask_stream request against a backend that interleaves malformed and
\* empty lines with its own.
RelayNext ==
    \/ \E q \in StreamReqs, question \in Questions : ask_question_stream_call(q, question)
    \/ \E q \in StreamReqs : \E resp \in EmbedResponses(query[q].question),
            outcome \in AllStoreOutcomes : ask_question_stream_embedded(q, resp, outcome)
    \/ \E q \in StreamReqs : generate_stream_start(q)
    \/ \E q \in StreamReqs, ev \in {"ok", "http_error", "connect_error"} :
            generate_stream_connected(q, ev)
    \/ \E q \in StreamReqs : \E ev \in BackendEvents(query[q], NoiseLines) :
            generate_stream_line(q, ev)
    \/ \E q \in StreamReqs : generate_stream_resume(q)
    \/ \E q \in StreamReqs : caller_disconnect(q)
    \/ \E q \in StreamReqs : generate_stream_cancel(q)

RelaySpec == QueryInit /\ [][RelayNext]_vars

\* The event loop delivers a pending cancellation to the generator.
RelayFairSpec == RelaySpec /\ WF_vars(\E q \in StreamReqs : generate_stream_cancel(q))

\* ------------------------------------------------------------------ ingest: properties
IngestDone(r) == ingest[r].pc = "done"
IngestSucceeded == { r \in IngestReqs : IngestDone(r) /\ ingest[r].http.status = 200 }
IndexesOf(id) == { i \in 1..Len(points) : points[i].id = id }
StoreFailed(r) == IngestDone(r) /\ ingest[r].store_outcome \in {"transport_error", "dimension_mismatch"}
IsPrefix(s, t) == Len(s) <= Len(t) /\ \A i \in 1..Len(s) : t[i] = s[i]

\* C1: every successful ingest has added exactly one point at the id it
\* returned, holding the vector the embedding call returned; returned ids are
\* pairwise distinct; the number of points is the number of successful
\* ingests; and no step replaces or removes a point already stored.
C1_State ==
    /\ \A r \in IngestSucceeded :
          /\ ingest[r].http.id # NoId
          /\ Cardinality(IndexesOf(ingest[r].http.id)) = 1
          /\ \A i \in IndexesOf(ingest[r].http.id) :
                points[i].vector = ingest[r].emb_resp.embedding
    /\ \A r1, r2 \in IngestSucceeded : r1 # r2 => ingest[r1].http.id # ingest[r2].http.id
    /\ Len(points) = Cardinality(IngestSucceeded)

\* C1: the state part holds always and every step only appends to the collection.
C1_IngestAddsOnePoint == [] C1_State /\ [][IsPrefix(points, points')]_vars

\* C1 witness: the same document was ingested twice and both points exist.
C1_Witness ==
    \E r1, r2 \in IngestSucceeded :
        r1 # r2 /\ ingest[r1].doc = ingest[r2].doc /\ Len(points) = 2

\* C2: an ingest whose embedding call failed (exception, timeout, non-success
\* status, body without embedding) ends with an error status, has never
\* invoked upsert, and the step that ends it leaves the stored points as they were.
C2_State ==
    \A r \in IngestReqs :
        (IngestDone(r) /\ EmbedFailed(ingest[r].emb_resp)) =>
            /\ ingest[r].http.status \in {500, 503}
            /\ ingest[r].http.id = NoId
            /\ ingest[r].upsert_calls = 0
            /\ ingest[r].point_id \notin PointIds(points)

C2_Step ==
    \A r \in IngestReqs :
        (ingest[r].pc = "await_embed" /\ ingest'[r].pc = "done"
            /\ EmbedFailed(ingest'[r].emb_resp)) => points' = points

\* C2: a failed embedding never reaches upsert, and the step that ends the
\* request leaves the collection unchanged.
C2_EmbedFailureWritesNothing == [] C2_State /\ [][C2_Step]_vars

\* C2 witness: an ingest ended by an embedding timeout next to a stored point.
C2_Witness ==
    /\ Len(points) = 1
    /\ \E r \in IngestReqs : IngestDone(r) /\ ingest[r].emb_resp.kind = "timeout"

\* C3: the payload stored by a successful ingest has text equal to the
\* document's own text, also when the metadata has a key "text", and every
\* other metadata key keeps the caller's value.
C3_PayloadTextIsDocText ==
    \A r \in IngestSucceeded : \A i \in IndexesOf(ingest[r].http.id) :
        /\ points[i].payload["text"] = ingest[r].doc.text
        /\ \A k \in DOMAIN ingest[r].doc.metadata \ {"text"} :
              points[i].payload[k] = ingest[r].doc.metadata[k]

\* C4 as claimed: every embedding failure is reported with 503 and status 500
\* comes only from a vector-store failure.
C4_EveryEmbedFailureIs503 ==
    \A r \in IngestReqs : IngestDone(r) =>
        /\ EmbedFailed(ingest[r].emb_resp) => ingest[r].http.status = 503
        /\ ingest[r].http.status = 500 => StoreFailed(r)

\* C4 amended: an embedding call that raises (backend unreachable, timeout) is
\* reported with 503 and nothing else is; an embedding response with a
\* non-success status or without an embedding is reported with 500, like a
\* vector-store failure, told apart only by the detail text.
C4_RaisedEmbedIs503 ==
    \A r \in IngestReqs : IngestDone(r) =>
        LET resp == ingest[r].emb_resp
            http == ingest[r].http
        IN /\ http.status = 503 <=> resp.kind \in {"connect_error", "timeout"}
           /\ http.status = 500 <=>
                 (StoreFailed(r) \/ (resp.kind = "response" /\ EmbedFailed(resp)))
           /\ (resp.kind = "response" /\ resp.status # 200) =>
                 (http.status = 500 /\ http.detail = "Embedding failed")
           /\ StoreFailed(r) => (http.status = 500 /\ http.detail = "Qdrant failed")

\* C4 witness: one ingest answered 503, another answered 500 for a bad status.
C4_Witness ==
    /\ \E r \in IngestReqs : IngestDone(r) /\ ingest[r].http.status = 503
    /\ \E r \in IngestReqs : IngestDone(r) /\ ingest[r].emb_resp.status = 500
                              /\ ingest[r].http.status = 500

\* C5: when upsert fails (transport failure or a vector whose dimension is not
\* the collection's) the ingest ends with status 500 and no id, upsert was
\* invoked exactly once, the store has no point for the request, the step
\* left the store unchanged, and every stored vector has the collection's dimension.
C5_State ==
    /\ \A r \in IngestReqs : StoreFailed(r) =>
          /\ ingest[r].http.status = 500
          /\ ingest[r].http.id = NoId
          /\ ingest[r].upsert_calls = 1
          /\ ingest[r].point_id \notin PointIds(points)
    /\ \A r \in IngestReqs :
          (IngestDone(r) /\ ingest[r].emb_resp.embedding.dim # VECTOR_SIZE) =>
              ingest[r].http.status \in {500, 503}
    /\ \A i \in 1..Len(points) : points[i].vector.dim = VECTOR_SIZE

C5_Step ==
    \A r \in IngestReqs :
        (ingest[r].pc = "await_embed" /\ ingest'[r].pc = "done"
            /\ ingest'[r].store_outcome \in {"transport_error", "dimension_mismatch"})
        => points' = points

\* C5: a failed upsert ends the ingest with 500 and no id, after one attempt,
\* and the step leaves the collection unchanged.
C5_UpsertFailureIs500 == [] C5_State /\ [][C5_Step]_vars

\* C5 witness: one ingest failed on a dimension mismatch, one on the transport.
C5_Witness ==
    /\ \E r \in IngestReqs : IngestDone(r) /\ ingest[r].store_outcome = "dimension_mismatch"
    /\ \E r \in IngestReqs : IngestDone(r) /\ ingest[r].store_outcome = "transport_error"

\* ------------------------------------------------------------------ query and relay: properties
EmbedOk(rec) == rec.emb_resp.kind = "response" /\ rec.emb_resp.status = 200
                    /\ rec.emb_resp.has_embedding
WellFormedLine(l) == l.kind = "object" /\ "response" \in l.members

RECURSIVE Responses(_)
\* The response values of the well-formed lines of ls, in order.
Responses(ls) ==
    IF ls = <<>> THEN <<>>
    ELSE IF WellFormedLine(ls[1]) THEN <<ls[1].response>> \o Responses(Tail(ls))
    ELSE Responses(Tail(ls))

IsErrorFragment(f) == Len(f) = 2 /\ f[1] = "Error: "
ErrorFragments(em) == { i \in 1..Len(em) : IsErrorFragment(em[i]) }
\* The fragments emitted before the error fragment of a failed stream.
Forwarded(rec) ==
    IF rec.failed /\ rec.emitted # <<>> THEN SubSeq(rec.emitted, 1, Len(rec.emitted) - 1)
    ELSE rec.emitted

\* C6: with a generation backend that is deterministic, sends only well-formed
\* lines and does not fail, ask_stream sends the prompt ask sends for the same
\* question and store, and the concatenation of the fragments of the finished
\* stream is the answer ask returns.
C6_StreamEqualsAsk ==
    \A a \in AskReqs, s \in StreamReqs :
        LET ra == query[a]
            rs == query[s]
        IN (ra.mode = "ask" /\ rs.mode = "ask_stream" /\ ra.question = rs.question) =>
             /\ ("generate" \in {ra.calls[i] : i \in 1..Len(ra.calls)}
                    /\ "generate" \in {rs.calls[i] : i \in 1..Len(rs.calls)})
                => rs.prompt = ra.prompt
             /\ (ra.pc = "done" /\ ra.http.status = 200 /\ rs.pc = "ended" /\ ~rs.failed
                    /\ rs.gen_status = 200
                    /\ \A i \in 1..Len(rs.lines) : WellFormedLine(rs.lines[i]))
                => Concat(rs.emitted) = ra.http.answer

\* C6 witness: both requests finished on a store of four points, three retrieved.
C6_Witness ==
    \E a \in AskReqs, s \in StreamReqs :
        /\ query[a].pc = "done" /\ query[a].http.status = 200
        /\ query[s].pc = "ended" /\ ~query[s].failed /\ query[s].gen_status = 200
        /\ query[a].question = query[s].question
        /\ Len(query[s].hits) = 3 /\ Len(query[s].emitted) = 3
        /\ Concat(query[s].emitted) = query[a].http.answer

\* C7: the fragments forwarded are exactly the response values of the
\* well-formed lines read so far, in order; a malformed or empty line emits
\* nothing and the relay goes on reading.
C7_State == \A q \in StreamReqs : Forwarded(query[q]) = Responses(query[q].lines)

C7_Step ==
    \A q \in StreamReqs :
        (Len(query'[q].lines) = Len(query[q].lines) + 1
            /\ ~WellFormedLine(query'[q].lines[Len(query'[q].lines)]))
        => (query'[q].emitted = query[q].emitted /\ query'[q].pc = "reading"
                /\ query'[q].conn = "open")

\* C7: the forwarded fragments are always the responses of the well-formed
\* lines read, and a step that reads a malformed line emits nothing and goes on.
C7_MalformedLinesSkipped == [] C7_State /\ [][C7_Step]_vars

\* C7 witness: one invalid line, then the three valid lines, three fragments.
C7_Witness ==
    \E q \in StreamReqs :
        /\ query[q].pc = "ended" /\ ~query[q].failed
        /\ Len(query[q].lines) = 4
        /\ query[q].lines[1].kind \in {"garbage", "string", "number"}
        /\ \A i \in 2..4 : WellFormedLine(query[q].lines[i])
        /\ Len(query[q].emitted) = 3

\* C8: after a transport failure of the generation call (on connect or on any
\* read) the stream holds exactly one error fragment, it is the last one, the
\* fragments forwarded before are kept, the connection is released, the
\* response keeps its status 200, and nothing more is read or emitted.
C8_State ==
    \A q \in StreamReqs :
        LET rec == query[q]
        IN /\ rec.failed =>
                /\ rec.emitted # <<>>
                /\ ErrorFragments(rec.emitted) = {Len(rec.emitted)}
                /\ Forwarded(rec) = Responses(rec.lines)
                /\ rec.pc \in {"yielded_error", "ended", "closed"}
                /\ rec.conn # "open"
                /\ rec.http.status = 200
           /\ ~rec.failed => ErrorFragments(rec.emitted) = {}

C8_Step ==
    \A q \in StreamReqs :
        query[q].failed => (query'[q].emitted = query[q].emitted
                                /\ query'[q].lines = query[q].lines)

\* C8: a failed stream always ends in its single error fragment, and no step
\* reads or emits after the failure.
C8_TransportErrorFragment == [] C8_State /\ [][C8_Step]_vars

\* C8 witness: the transport failed after two fragments; the stream ended.
C8_Witness ==
    \E q \in StreamReqs :
        /\ query[q].failed /\ query[q].pc = "ended"
        /\ Len(query[q].emitted) = 3 /\ Len(query[q].lines) >= 2

\* C9: in ask_stream the generation stream is opened and a fragment is sent
\* only after the embedding call and the search succeeded; when one of them
\* fails the request ends with status 500, no fragment and no stream.
C9_PreStreamFailuresAbort ==
    \A q \in StreamReqs :
        LET rec == query[q]
            pre_ok == EmbedOk(rec) /\ rec.search_outcome = "ok"
        IN /\ (rec.emitted # <<>> \/ rec.conn # "none" \/ Streaming(q)
                 \/ "generate" \in {rec.calls[i] : i \in 1..Len(rec.calls)}
                 \/ rec.http.status = 200) => pre_ok
           /\ (rec.mode = "ask_stream" /\ rec.pc # "await_embed" /\ ~pre_ok) =>
                 /\ rec.pc = "done" /\ rec.http.status = 500
                 /\ rec.emitted = <<>> /\ rec.conn = "none"

\* C9 witness: the embedding succeeded, the search failed, the request aborted.
C9_Witness ==
    \E q \in StreamReqs :
        /\ query[q].pc = "done" /\ EmbedOk(query[q])
        /\ query[q].search_outcome = "transport_error" /\ Len(points) > 0

\* C10: once the caller has disconnected the relay reads no further line,
\* emits no further fragment and opens no connection, and an open upstream
\* connection is eventually closed.
C10_Step ==
    \A q \in StreamReqs :
        query[q].disconnected =>
            /\ query'[q].lines = query[q].lines
            /\ query'[q].emitted = query[q].emitted
            /\ query[q].conn # "open" => query'[q].conn = query[q].conn

\* C10: no step after the disconnect reads, emits or connects, and an open
\* upstream connection leads to a closed one.
C10_DisconnectStopsRelay ==
    /\ [][C10_Step]_vars
    /\ \A q \in StreamReqs :
          (query[q].disconnected /\ query[q].conn = "open") ~> (query[q].conn = "closed")

\* C10 witness: the caller left after the first fragment; the connection is closed.
C10_Witness ==
    \E q \in StreamReqs :
        /\ query[q].disconnected /\ query[q].pc = "closed" /\ query[q].conn = "closed"
        /\ Len(query[q].emitted) = 1 /\ ~query[q].failed

\* ------------------------------------------------------------------ ask: properties
Calls(rec) == { rec.calls[i] : i \in 1..Len(rec.calls) }
GenFailed(rec) == rec.gen_resp.kind \in {"connect_error", "timeout"}
                    \/ (rec.gen_resp.kind = "response" /\ ~rec.gen_resp.has_response)
SearchReturned(rec) == EmbedOk(rec) /\ rec.search_outcome = "ok"

\* C11: on an empty collection a search that the store answers returns no
\* points, ask goes on to call generate exactly once with the template filled
\* with an empty context, and when generate answers it returns that answer
\* with retrieved_context = []; the request fails only when a call fails.
C11_EmptyStoreStillGenerates ==
    \A a \in AskReqs :
        LET rec == query[a]
        IN (rec.mode = "ask" /\ Len(points) = 0) =>
             /\ SearchReturned(rec) =>
                   /\ rec.hits = <<>>
                   /\ rec.pc \in {"await_generate", "done"}
                   /\ rec.calls = <<"embed", "search", "generate">>
                   /\ rec.prompt = <<"Context: ", "\n\nQuestion: ">> \o rec.question
                                        \o <<"\n\nAnswer:">>
             /\ (rec.pc = "done" /\ SearchReturned(rec) /\ ~GenFailed(rec)) =>
                   /\ rec.http.status = 200
                   /\ rec.http.retrieved_context = <<>>
                   /\ rec.http.answer = rec.gen_resp.response
             /\ (rec.pc = "done" /\ rec.http.status # 200) =>
                   (~SearchReturned(rec) \/ GenFailed(rec))

\* C11 witness: an ask on the empty collection returned an answer.
C11_Witness ==
    \E a \in AskReqs :
        /\ Len(points) = 0 /\ query[a].pc = "done" /\ query[a].http.status = 200
        /\ query[a].http.retrieved_context = <<>> /\ query[a].http.answer # <<>>

\* C12: in ask a failed embedding call and a failed generation call are
\* reported as failures of different kinds, and an embedding failure is not
\* reported with the status 500 of a generic internal failure.
C12_AskFailuresDistinguished ==
    /\ \A a \in AskReqs :
          (query[a].mode = "ask" /\ query[a].pc = "done" /\ ~EmbedOk(query[a]))
              => query[a].http.status \notin {200, 500}
    /\ \A a, b \in AskReqs :
          (query[a].mode = "ask" /\ query[a].pc = "done" /\ ~EmbedOk(query[a])
              /\ query[b].mode = "ask" /\ query[b].pc = "done" /\ GenFailed(query[b]))
              => query[a].http # query[b].http

\* ------------------------------------------------------------------ ingest, then ask
\* One ingest request and one ask request on a collection that earlier
\* ingests filled; the question is a document text, so that it embeds to the
\* vector of the document with that text.
PriorStores ==
    StoreSamples \cup
    { MakeStore(<< Doc(<<"kubelet">>, {}), Doc(<<"kubelet">>, {"source"}),
                   Doc(<<"kubelet">>, {}) >>) }

IngestAskInit ==
    /\ points \in PriorStores
    /\ issued = {}
    /\ ingest = [r \in IngestReqs |-> IngestIdle]
    /\ query = [q \in QueryReqs |-> QueryIdle]
    /\ collections = {DevopsCollection}
    /\ startup = [i \in Instances |-> StartupDone]

IngestAskNext ==
    \/ \E r \in {1}, doc \in Document : ingest_document_call(r, doc)
    \/ \E r \in {1} : \E resp \in EmbedResponses(ingest[r].doc.text) :
            ingest_document_resume(r, resp)
    \/ \E q \in {1}, question \in DocTexts : ask_question_call(q, question)
    \/ \E q \in {1} : \E resp \in EmbedResponses(query[q].question),
            outcome \in AllStoreOutcomes : ask_question_embedded(q, resp, outcome)
    \/ \E q \in {1} : \E resp \in GenResponses(query[q].prompt) :
            ask_question_generated(q, resp)

IngestAskSpec == IngestAskInit /\ [][IngestAskNext]_vars

\* The search of ask a runs in this step, after ingest r succeeded, with the
\* vector r stored.
SearchesAfterIngest(a, r) ==
    /\ IngestDone(r) /\ ingest[r].http.status = 200
    /\ query[a].mode = "ask" /\ query[a].pc = "await_embed"
    /\ query'[a].pc = "await_generate"
    /\ query'[a].emb_resp.embedding = ingest[r].emb_resp.embedding

HitTexts(rec) == { rec.hits[i].payload["text"] : i \in 1..Len(rec.hits) }

\* C13: a search that follows a successful ingest of a document, with that
\* document's own embedding, retrieves a payload whose text is the document's
\* text, and ask returns the payloads of what the search retrieved.
C13_Step ==
    \A r \in IngestReqs, a \in AskReqs :
        SearchesAfterIngest(a, r) => ingest[r].doc.text \in HitTexts(query'[a])

C13_State ==
    \A a \in AskReqs :
        (query[a].mode = "ask" /\ query[a].pc = "done" /\ query[a].http.status = 200) =>
            query[a].http.retrieved_context =
                [i \in 1..Len(query[a].hits) |-> query[a].hits[i].payload]

\* C13 as claimed, for every document.
C13_IngestedDocIsRetrieved == [] C13_State /\ [][C13_Step]_vars

\* The same for documents whose metadata has no key "text", on collections
\* whose payloads all carry their document's text.
C13_Step_NoTextKey ==
    \A r \in IngestReqs, a \in AskReqs :
        (SearchesAfterIngest(a, r) /\ "text" \notin DOMAIN ingest[r].doc.metadata
            /\ \A i \in 1..Len(points) : points[i].payload["text"] \in DocTexts)
        => ingest[r].doc.text \in HitTexts(query'[a])

C13_RetrievedWithoutTextKey == [] C13_State /\ [][C13_Step_NoTextKey]_vars

\* ------------------------------------------------------------------ startup: properties
PriorRunCompleted == \E j \in Instances : startup[j].ok_runs > 0

OneDevopsCollection == {c \in collections : c.name = COLLECTION_NAME} = {DevopsCollection}

\* A run that starts after a completed one and gets the store's answer ends
\* at once: no create call, no error, the collections as they were.
C14_Step ==
    \A i \in Instances :
        (/\ PriorRunCompleted
         /\ startup[i].pc = "idle"
         /\ startup'[i] # startup[i]
         /\ startup'[i].error # "transport")
        => /\ startup'[i].pc = "done"
           /\ startup'[i].error = "none"
           /\ startup'[i].create_calls = startup[i].create_calls
           /\ collections' = collections

C14_State == PriorRunCompleted => OneDevopsCollection

\* C14: running startup_event again after a completed run leaves exactly one
\* collection devops_knowledge of size 768 with the cosine metric; the later
\* run finds the collection, does not call create_collection and raises nothing.
C14_SecondStartupIsNoOp == [] C14_State /\ [][C14_Step]_vars

\* One instance started twice in sequence, nothing else running.
C14_Witness ==
    \E i \in Instances :
        /\ startup[i].pc = "done"
        /\ startup[i].ok_runs = 2
        /\ startup[i].create_calls = 1
        /\ \A j \in Instances \ {i} : startup[j] = StartupIdle
        /\ OneDevopsCollection

RECURSIVE SumCreateCalls(_)
SumCreateCalls(is) ==
    IF is = {} THEN 0
    ELSE LET i == CHOOSE x \in is : TRUE
         IN startup[i].create_calls + SumCreateCalls(is \ {i})

\* C15: whatever the interleaving of the startup runs of the instances, as long
\* as the store answers every call, create_collection is called at most once
\* and no run fails because the collection was already there.
C15_ConcurrentStartupCreatesOnce ==
    (\A i \in Instances : ~startup[i].lost)
    => /\ SumCreateCalls(Instances) <= 1
       /\ \A i \in Instances : startup[i].pc # "failed"

\* ------------------------------------------------------------------ call order
PipelineOrder == <<"embed", "search", "generate">>

\* The external calls of one request so far: in pipeline order, none twice;
\* search only after an embedding came back, generate only after the search
\* returned; a failed call is the last call of its request.
C16_State ==
    \A q \in QueryReqs :
        LET rec == query[q]
        IN /\ IsPrefix(rec.calls, PipelineOrder)
           /\ "search" \in Calls(rec) => EmbedOk(rec)
           /\ "generate" \in Calls(rec) => SearchReturned(rec)
           /\ (rec.emb_resp.kind # "none" /\ ~EmbedOk(rec)) => rec.calls = <<"embed">>
           /\ (rec.search_outcome \notin {"none", "ok"}) => rec.calls = <<"embed", "search">>
           /\ GenFailed(rec) => rec.calls = PipelineOrder

\* A step never takes a call back nor reorders the calls made.
C16_Step == \A q \in QueryReqs : query[q].pc # "idle" => IsPrefix(query[q].calls, query'[q].calls)

\* C16: within one ask or ask_stream request the external calls are embed,
\* then search, then generate, each at most once; search follows a successful
\* embed, generate a search that returned, and nothing follows a failed call.
C16_CallsInPipelineOrder == [] C16_State /\ [][C16_Step]_vars

\* An ask request stopped by a failed search next to a stream request that
\* made its three calls.
C16_Witness ==
    \E a \in AskReqs, s \in StreamReqs :
        /\ query[a].pc = "done" /\ query[a].calls = <<"embed", "search">>
        /\ query[a].search_outcome = "transport_error"
        /\ query[s].calls = PipelineOrder /\ query[s].mode = "ask_stream"

\* ------------------------------------------------------------------ relay: forwarding
LastLine(rec) == rec.lines[Len(rec.lines)]

\* Nothing is held back: the fragments handed on are the fragments of all the
\* lines read, and the generator waiting at its yield has handed on the
\* fragment of the line it read last.
C17_State ==
    \A q \in StreamReqs :
        LET rec == query[q]
        IN /\ Len(Responses(rec.lines)) = Len(Forwarded(rec))
           /\ Forwarded(rec) = Responses(rec.lines)
           /\ rec.pc = "yielded"
                => /\ rec.lines # <<>> /\ WellFormedLine(LastLine(rec))
                   /\ rec.emitted[Len(rec.emitted)] = LastLine(rec).response

\* A line is read only when no fragment waits at the yield, one line at a
\* time, and the fragment of a line is emitted in the step that read the line.
C17_Step ==
    \A q \in StreamReqs :
        query'[q].lines # query[q].lines
        => /\ query[q].pc = "reading"
           /\ Len(query'[q].lines) = Len(query[q].lines) + 1
           /\ WellFormedLine(LastLine(query'[q]))
                => /\ query'[q].pc = "yielded"
                   /\ query'[q].emitted = Append(query[q].emitted, LastLine(query'[q]).response)

\* C17: the relay emits the fragment of a line before it reads the next line,
\* so it never holds more than one fragment and the fragments emitted (the
\* synthetic error fragment of a failed stream aside) are at every moment the
\* fragments of the lines read so far.
C17_ForwardsBeforeNextRead == [] C17_State /\ [][C17_Step]_vars

\* The generator waits at the yield of its second fragment, a malformed line
\* read in between.
C17_Witness ==
    \E q \in StreamReqs :
        /\ query[q].pc = "yielded" /\ Len(query[q].emitted) = 2
        /\ Len(query[q].lines) = 3 /\ ~WellFormedLine(query[q].lines[2])

\* ------------------------------------------------------------------ ask: context and prompt
\* The text of the prompt for the payloads ps and the question, written out
\* for each number of payloads the search can return.
TemplateFor(ps, question) ==
    LET t(i) == ps[i]["text"]
        ctx == CASE Len(ps) = 0 -> <<>>
                 [] Len(ps) = 1 -> t(1)
                 [] Len(ps) = 2 -> t(1) \o <<"\n">> \o t(2)
                 [] OTHER -> t(1) \o <<"\n">> \o t(2) \o <<"\n">> \o t(3)
    IN <<"Context: ">> \o ctx \o <<"\n\nQuestion: ">> \o question \o <<"\n\nAnswer:">>

\* The sequence hs of points is in descending similarity to the direction q,
\* and no point of pts left out is nearer than one of hs.
DescendingNearest(hs, pts, q) ==
    /\ \A i, j \in 1..Len(hs) :
            i < j => ~CosGreater(hs[j].vector.dir, hs[i].vector.dir, q)
    /\ \A i \in 1..Len(hs) : \E n \in 1..Len(pts) : pts[n] = hs[i]
    /\ \A n \in 1..Len(pts) :
            (\A i \in 1..Len(hs) : hs[i] # pts[n])
            => \A i \in 1..Len(hs) : ~CosGreater(pts[n].vector.dir, hs[i].vector.dir, q)

\* C18: ask returns at most 3 payloads, the payloads of the nearest points in
\* descending similarity; the prompt it sent is the template filled with the
\* texts of these payloads, newline-joined in that order, and the question;
\* ask_stream on the same store and question sends the same prompt.
C18_AskContextAndPrompt ==
    \A a \in AskReqs :
        LET rec == query[a]
            rc == rec.http.retrieved_context
        IN (rec.mode = "ask" /\ rec.pc = "done" /\ rec.http.status = 200)
           => /\ Len(rc) <= 3
              /\ Len(rc) = IF Len(points) < 3 THEN Len(points) ELSE 3
              /\ Len(rec.hits) = Len(rc)
              /\ \A i \in 1..Len(rc) : rc[i] = rec.hits[i].payload
              /\ DescendingNearest(rec.hits, points, rec.emb_resp.embedding.dir)
              /\ rec.prompt = TemplateFor(rc, rec.question)
              /\ \A s \in StreamReqs :
                    (query[s].question = rec.question /\ "generate" \in Calls(query[s]))
                    => query[s].prompt = rec.prompt

\* ask answered with three of the four stored points, and ask_stream has sent
\* its prompt for the same question.
C18_Witness ==
    \E a \in AskReqs, s \in StreamReqs :
        /\ query[a].pc = "done" /\ query[a].http.status = 200
        /\ Len(points) = 4 /\ Len(query[a].http.retrieved_context) = 3
        /\ query[s].question = query[a].question /\ "generate" \in Calls(query[s])

\* ------------------------------------------------------------------ ingest next to queries
\* One ingest request, one ask request and the ask_stream request, running
\* interleaved on a collection that is empty or holds one point; the
\* generation backend streams no line besides its own.
ServiceDocs == { Doc(<<"kubelet">>, {}), Doc(<<"helm", "chart">>, {"source"}) }

ServiceInit ==
    /\ points \in { MakeStore(<<>>), MakeStore(<< Doc(<<"kubelet">>, {}) >>) }
    /\ issued = {}
    /\ ingest = [r \in IngestReqs |-> IngestIdle]
    /\ query = [q \in QueryReqs |-> QueryIdle]
    /\ collections = {DevopsCollection}
    /\ startup = [i \in Instances |-> StartupDone]

ServiceNext ==
    \/ \E r \in {1}, doc \in ServiceDocs : ingest_document_call(r, doc)
    \/ \E r \in {1} : \E resp \in EmbedResponses(ingest[r].doc.text) :
            ingest_document_resume(r, resp)
    \/ \E q \in {1}, question \in Questions : ask_question_call(q, question)
    \/ \E q \in {1} : \E resp \in EmbedResponses(query[q].question),
            outcome \in AllStoreOutcomes : ask_question_embedded(q, resp, outcome)
    \/ \E q \in {1} : \E resp \in GenResponses(query[q].prompt) :
            ask_question_generated(q, resp)
    \/ \E q \in StreamReqs, question \in Questions : ask_question_stream_call(q, question)
    \/ \E q \in StreamReqs : \E resp \in EmbedResponses(query[q].question),
            outcome \in AllStoreOutcomes : ask_question_stream_embedded(q, resp, outcome)
    \/ \E q \in StreamReqs : generate_stream_start(q)
    \/ \E q \in StreamReqs, ev \in {"ok", "http_error", "connect_error"} :
            generate_stream_connected(q, ev)
    \/ \E q \in StreamReqs : \E ev \in BackendEvents(query[q], {}) :
            generate_stream_line(q, ev)
    \/ \E q \in StreamReqs : generate_stream_resume(q)
    \/ \E q \in StreamReqs : caller_disconnect(q)
    \/ \E q \in StreamReqs : generate_stream_cancel(q)

ServiceSpec == ServiceInit /\ [][ServiceNext]_vars

\* A step of a query request, whatever its outcome, leaves the collection as
\* it was; a step that changes the collection is the step of an ingest
\* request that succeeds, and it adds one point.
C19_Step ==
    /\ query' # query => points' = points
    /\ points' # points
         => /\ query' = query
            /\ \E r \in IngestReqs :
                    /\ ingest[r].pc = "await_embed" /\ ingest'[r].pc = "done"
                    /\ ingest'[r].http.status = 200
            /\ IsPrefix(points, points') /\ Len(points') = Len(points) + 1

\* C19: ask and ask_stream never change the collection, on any outcome and
\* interleaved with each other and with ingest; only ingest adds points.
C19_QueriesLeaveStoreUnchanged == [][C19_Step]_vars

\* Both query requests searched a collection that an ingest had extended, and
\* ended: ask with a failed generation, the stream by a disconnect.
C19_Witness ==
    \E a \in AskReqs, s \in StreamReqs, r \in IngestReqs :
        /\ ingest[r].pc = "done" /\ ingest[r].http.status = 200 /\ Len(points) = 2
        /\ query[a].pc = "done" /\ GenFailed(query[a]) /\ Len(query[a].hits) = 2
        /\ query[s].pc = "closed" /\ query[s].disconnected /\ Len(query[s].hits) = 2

\* ------------------------------------------------------------------ the stream ends
\* The ask_stream request alone, the backend sending its lines and at most
\* MaxNoise lines that are not JSON. The backend keeps answering, and the
\* response keeps asking the generator for the next fragment until the
\* caller leaves; a pending cancellation is delivered.
StreamNext ==
    \/ \E q \in StreamReqs, question \in Questions : ask_question_stream_call(q, question)
    \/ \E q \in StreamReqs : \E resp \in EmbedResponses(query[q].question),
            outcome \in AllStoreOutcomes : ask_question_stream_embedded(q, resp, outcome)
    \/ \E q \in StreamReqs : generate_stream_start(q)
    \/ \E q \in StreamReqs, ev \in {"ok", "http_error", "connect_error"} :
            generate_stream_connected(q, ev)
    \/ \E q \in StreamReqs : \E ev \in BackendEvents(query[q], {GarbageLine}) :
            generate_stream_line(q, ev)
    \/ \E q \in StreamReqs : generate_stream_resume(q)
    \/ \E q \in StreamReqs : caller_disconnect(q)
    \/ \E q \in StreamReqs : generate_stream_cancel(q)

StreamFairness ==
    /\ WF_vars(\E q \in StreamReqs : generate_stream_start(q))
    /\ WF_vars(\E q \in StreamReqs, ev \in {"ok", "http_error", "connect_error"} :
                    generate_stream_connected(q, ev))
    /\ WF_vars(\E q \in StreamReqs : \E ev \in BackendEvents(query[q], {GarbageLine}) :
                    generate_stream_line(q, ev))
    /\ WF_vars(\E q \in StreamReqs : generate_stream_resume(q))
    /\ WF_vars(\E q \in StreamReqs : generate_stream_cancel(q))

StreamFairSpec == QueryInit /\ [][StreamNext]_vars /\ StreamFairness

StreamOver(q) == query[q].pc \in {"ended", "closed"}

\* A stream that is over holds no open upstream connection.
C20_State == \A q \in StreamReqs : StreamOver(q) => query[q].conn # "open"

\* C20: a stream that ask_stream has started comes to its end, and whichever
\* way it ends (lines exhausted, transport error and error fragment, caller
\* disconnect) the upstream connection is closed: no state has the stream
\* over and the connection open.
C20_StreamEndsConnectionClosed ==
    /\ [] C20_State
    /\ \A q \in StreamReqs : (query[q].pc = "response_started") ~> StreamOver(q)

\* The caller left while the connection was open, fragments already sent:
\* the stream is over and the connection closed.
C20_Witness ==
    \E q \in StreamReqs :
        /\ StreamOver(q) /\ query[q].disconnected /\ query[q].conn = "closed"
        /\ Len(query[q].emitted) = 2 /\ Len(query[q].lines) = 3

====
